---------------------------- MODULE Spec2Model ----------------------------
(***************************************************************************)
(* A model of jot (Utagai/jot): the invocation executor exec_cmd, the path *)
(* resolver relative_path_to_absolute and the workflows new, edit, list    *)
(* and sync of src/src/cmd.rs, and main with its edit, list and synch of    *)
(* src/src/main.rs, run once for one command line.                         *)
(*                                                                         *)
(* A path is the sequence of components that Path::components() yields     *)
(* (separators and interior "." already dropped, ".." kept), plus whether  *)
(* it starts at the root.  A child process is a step of the environment:   *)
(* the parent blocks in Command::output() between the spawn action and the *)
(* return action of each call site.                                        *)
(***************************************************************************)
EXTENDS Integers, Sequences, FiniteSets, TLC

\* ------------------------------------------------------------------ bounds
\* Longest candidate path given on the command line, in components.
MaxPathLen == 2

\* ------------------------------------------------------------------- paths
PathNames == {"repo", "x", ".."}

RECURSIVE SeqsUpTo(_, _)
SeqsUpTo(S, n) ==
    IF n = 0 THEN {<<>>}
    ELSE LET shorter == SeqsUpTo(S, n - 1)
         IN  shorter \cup {Append(s, c) : s \in {t \in shorter : Len(t) = n - 1}, c \in S}

Path(abs, comps) == [abs |-> abs, comps |-> comps]

CandidatePaths == {Path(a, c) : a \in BOOLEAN, c \in SeqsUpTo(PathNames, MaxPathLen)}

\* The base directory the notes live under (Args::base_dir).
BaseDir == Path(TRUE, <<"repo">>)

IsPrefix(s, t) == Len(s) <= Len(t) /\ SubSeq(t, 1, Len(s)) = s

\* Path::is_absolute
is_absolute(p) == p.abs

\* Path::join: an absolute argument replaces the receiver, a relative one is
\* appended to it.
join(base, p) ==
    IF is_absolute(p) THEN p ELSE Path(base.abs, base.comps \o p.comps)

\* Path::starts_with: whole components of base are a prefix of those of p.
starts_with(p, base) == p.abs = base.abs /\ IsPrefix(base.comps, p.comps)

\* What the operating system makes of a path: ".." leaves the directory
\* reached so far (and stays at the root), a relative path starts at cwd.
RECURSIVE Walk(_, _)
Walk(done, rest) ==
    IF rest = <<>> THEN done
    ELSE IF Head(rest) = ".."
         THEN Walk(IF done = <<>> THEN <<>> ELSE SubSeq(done, 1, Len(done) - 1), Tail(rest))
         ELSE Walk(Append(done, Head(rest)), Tail(rest))

Location(p, dir) ==
    Path(TRUE, Walk(<<>>, IF p.abs THEN p.comps ELSE dir.comps \o p.comps))

\* ------------------------------------------------------------ error values
\* A Result: Ok(value), or Err with anyhow's chain of messages, outermost
\* first.  A message is its kind and the texts formatted into it.
Ok(v) == [ok |-> TRUE, val |-> v, err |-> <<>>]
Err(kind, detail) == [ok |-> FALSE, val |-> <<>>, err |-> <<[kind |-> kind, detail |-> detail]>>]

\* .context(msg) that leaves the error as it was.
context_dropped(r, msg) == r

\* anyhow's .context(msg): the message is put in front of the error chain.
context(r, msg) ==
    IF r.ok THEN r
    ELSE [r EXCEPT !.err = <<[kind |-> "Context", detail |-> msg]>> \o r.err]

\* Path::display, as the texts of a message.
display(p) == (IF p.abs THEN <<"/">> ELSE <<>>) \o p.comps

\* relative_path_to_absolute with the containment check made on every
\* candidate, before the join.
relative_path_to_absolute_checked_first(base_dir, filepath) ==
    IF ~starts_with(filepath, base_dir)
    THEN Err("PathOutsideBaseDirectory", display(filepath))
    ELSE Ok(join(base_dir, filepath))

\* relative_path_to_absolute
relative_path_to_absolute(base_dir, filepath) ==
    IF ~is_absolute(filepath)
    THEN Ok(join(base_dir, filepath))
    ELSE IF ~starts_with(filepath, base_dir)
         THEN Err("PathOutsideBaseDirectory", display(filepath))
         ELSE Ok(filepath)

\* ---------------------------------------------------------------- children
CTRL_C_EXIT_CODE == 130

\* ExitStatus::code(): Some(code), or None when a signal ended the child.
Some(c) == [some |-> TRUE, code |-> c]
None == [some |-> FALSE, code |-> 0]
ExitStatuses == {Some(0), Some(1), Some(CTRL_C_EXIT_CODE), None}

\* ExitStatus::success()
success(status) == status = Some(0)

\* Output text is a sequence of tokens: blanks, newlines, and the pieces of
\* a path ("/" and component names).
Whitespace == {" ", "\n"}
StdoutSamples ==
    { <<>>,
      <<"/", "repo", "/", "x", "\n">>,
      <<" ", "x", " ">>,
      <<"/", "etc", "/", "x">> }

\* str::trim
RECURSIVE trim_start(_)
trim_start(t) ==
    IF t # <<>> /\ Head(t) \in Whitespace THEN trim_start(Tail(t)) ELSE t

RECURSIVE trim_end(_)
trim_end(t) ==
    IF t # <<>> /\ t[Len(t)] \in Whitespace
    THEN trim_end(SubSeq(t, 1, Len(t) - 1)) ELSE t

trim(t) == trim_end(trim_start(t))

\* Path::new on a text: it is absolute when it starts with a separator, and
\* its components are the pieces between separators.
PathNew(t) ==
    Path(t # <<>> /\ Head(t) = "/", SelectSeq(t, LAMBDA c : c # "/"))

NoPath == Path(FALSE, <<>>)

\* std::process::Command as built by the call sites: program, arguments
\* (texts, and at most one path argument), and the three stdio settings.
\* Command::output() defaults: stdin not inherited, stdout and stderr piped.
Command(program, argv, file) ==
    [program |-> program, argv |-> argv, file |-> file,
     stdin |-> "null", stdout |-> "piped", stderr |-> "piped"]

\* What a child does, chosen by the environment: its output on stdout,
\* whether the bytes it wrote to stdout and stderr are valid UTF-8, and how
\* it ended.
Child(out, out_utf8, err_utf8, status) ==
    [stdout |-> out, stdout_utf8 |-> out_utf8, stderr_utf8 |-> err_utf8,
     status |-> status]

Children(samples) ==
    {Child(o, a, b, s) : o \in samples, a \in BOOLEAN, b \in BOOLEAN, s \in ExitStatuses}

\* Command::output(): a stream the child inherits is not collected, so the
\* parent gets no bytes for it (and no bytes are valid UTF-8).
output(cmd, child) ==
    [stdout      |-> IF cmd.stdout = "piped" THEN child.stdout ELSE <<>>,
     stdout_utf8 |-> cmd.stdout # "piped" \/ child.stdout_utf8,
     stderr_utf8 |-> cmd.stderr # "piped" \/ child.stderr_utf8,
     status      |-> child.status]

\* The invocation text of a diagnostic: program and arguments.
invocation(cmd) == <<cmd.program>> \o cmd.argv \o display(cmd.file)

\* exit_code.map_or("N/A", |code| code.to_string())
code_text(exit_code) == IF exit_code.some THEN ToString(exit_code.code) ELSE "N/A"

\* exec_cmd when Command::output() could not start the program.
exec_cmd_launch_failure(label, cmd) ==
    context(Err("Io", <<>>), <<"failed to execute", label>> \o invocation(cmd))

\* The text exec_cmd reports as the child's stderr.
StderrNotCaptured == "<jot: stderr not captured>"

stderr_output(captured_stderr) ==
    IF captured_stderr THEN "stderr of the child" ELSE StderrNotCaptured

\* exec_cmd with the output taken as text whatever its bytes are.
exec_cmd_undecoded(label, cmd, child, captured_stderr, quiet_on_ctrl_c) ==
    LET exec == output(cmd, child)
        trimmed_stdout == trim(exec.stdout)
        exit_code == exec.status
    IN  IF ~success(exec.status)
        THEN IF quiet_on_ctrl_c /\ exit_code = Some(CTRL_C_EXIT_CODE)
             THEN Ok([stdout |-> trimmed_stdout, exit_code |-> exit_code])
             ELSE Err("NonZeroExit", <<label, code_text(exit_code)>> \o invocation(cmd)
                                         \o <<"stderr of the child">>)
        ELSE Ok([stdout |-> trimmed_stdout, exit_code |-> exit_code])

\* exec_cmd with the exit status never looked at.
exec_cmd_unchecked(label, cmd, child, captured_stderr, quiet_on_ctrl_c) ==
    LET exec == output(cmd, child)
    IN  IF ~exec.stdout_utf8 THEN Err("Utf8Error", <<"stdout">>)
        ELSE IF captured_stderr /\ ~exec.stderr_utf8 THEN Err("Utf8Error", <<"stderr">>)
        ELSE Ok([stdout |-> trim(exec.stdout), exit_code |-> exec.status])

\* exec_cmd with exit code 130 let through whatever quiet_on_ctrl_c says.
exec_cmd_always_quiet(label, cmd, child, captured_stderr, quiet_on_ctrl_c) ==
    LET exec == output(cmd, child)
        trimmed_stdout == trim(exec.stdout)
        exit_code == exec.status
    IN  IF ~exec.stdout_utf8 THEN Err("Utf8Error", <<"stdout">>)
        ELSE IF captured_stderr /\ ~exec.stderr_utf8 THEN Err("Utf8Error", <<"stderr">>)
        ELSE IF ~success(exec.status)
             THEN IF exit_code = Some(CTRL_C_EXIT_CODE)
                  THEN Ok([stdout |-> trimmed_stdout, exit_code |-> exit_code])
                  ELSE Err("NonZeroExit", <<label, code_text(exit_code)>> \o invocation(cmd)
                                                 \o <<stderr_output(captured_stderr)>>)
             ELSE Ok([stdout |-> trimmed_stdout, exit_code |-> exit_code])

\* exec_cmd once the child has terminated.
exec_cmd(label, cmd, child, captured_stderr, quiet_on_ctrl_c) ==
    LET exec == output(cmd, child)
        trimmed_stdout == trim(exec.stdout)
        exit_code == exec.status
    IN  IF ~exec.stdout_utf8 THEN Err("Utf8Error", <<"stdout">>)
        ELSE IF captured_stderr /\ ~exec.stderr_utf8 THEN Err("Utf8Error", <<"stderr">>)
        ELSE IF ~success(exec.status)
             THEN IF quiet_on_ctrl_c /\ exit_code = Some(CTRL_C_EXIT_CODE)
                  THEN Ok([stdout |-> trimmed_stdout, exit_code |-> exit_code])
                  ELSE Err("NonZeroExit", <<label, code_text(exit_code)>> \o invocation(cmd)
                                                 \o <<stderr_output(captured_stderr)>>)
             ELSE Ok([stdout |-> trimmed_stdout, exit_code |-> exit_code])

\* ------------------------------------------------------------------- state
VARIABLES
    args,       \* cli::Args, read-only after parsing
    command,    \* cli::Command: [name, some, path]
    env,        \* which of $SHELL and $EDITOR are set
    cwd,        \* the process's working directory
    files,      \* the locations that exist in the filesystem
    data,       \* the locations that hold a file with bytes in it
    pc,       \* where the workflow stands
    resolved,   \* what relative_path_to_absolute returned to new or list
    filepath,   \* the path the editor's command is built with
    inflight,   \* the sites of the children running now
    invoked,    \* every exec_cmd call so far: [site, label, cmd]
    returned,   \* every child that terminated, and what exec_cmd made of it
    printed,    \* what list has written to stdout
    result      \* what the workflow returned: [done, ok, err]

vars == <<args, command, env, cwd, files, data, pc, resolved, filepath, inflight,
          invoked, returned, printed, result>>

ArgsSet ==
    [base_dir : {BaseDir},
     finder : {"finder-cmd"},
     lister : {"lister-cmd"},
     edit_syncs : BOOLEAN,
     capture_std : BOOLEAN,
     shell_cmd_flag : {"-c"},
     quiet_on_ctrl_c : BOOLEAN,
     git_remote_name : {"origin"},
     git_upstream_branch : {"main"},
     git_custom_commit_msg : BOOLEAN]

Commands ==
    {[name |-> "New", some |-> TRUE, path |-> p] : p \in CandidatePaths}
    \cup {[name |-> "Edit", some |-> FALSE, path |-> NoPath]}
    \cup {[name |-> "List", some |-> TRUE, path |-> p] : p \in CandidatePaths}
    \cup {[name |-> "List", some |-> FALSE, path |-> NoPath]}
    \cup {[name |-> "Synch", some |-> FALSE, path |-> NoPath]}

Envs ==
    {[SHELL |-> TRUE, EDITOR |-> TRUE],
     [SHELL |-> FALSE, EDITOR |-> TRUE],
     [SHELL |-> TRUE, EDITOR |-> FALSE]}

\* The function of cmd.rs each command names.
Entry(c) ==
    CASE c.name = "New" -> "new"
      [] c.name = "Edit" -> "edit"
      [] c.name = "List" -> "list"
      [] c.name = "Synch" -> "sync_pull"

Running == [done |-> FALSE, ok |-> FALSE, err |-> <<>>]

\* The filesystem jot finds: the base directory and one note with text in
\* it.
InitialFiles == {<<>>, <<"repo">>, <<"repo", "x">>}

InitialData == {<<"repo", "x">>}

\* The process as it enters the function `entry` for command c, with the
\* locations fs in the filesystem.  jot is started in the base directory or
\* somewhere else (here: the root).
StartIn(c, entry, fs) ==
    /\ args \in ArgsSet
    /\ command = c
    /\ env \in Envs
    /\ cwd \in {args.base_dir, Path(TRUE, <<>>)}
    /\ files = fs
    /\ data = InitialData \cap fs
    /\ pc = entry
    /\ resolved = <<>>
    /\ filepath = NoPath
    /\ inflight = {}
    /\ invoked = <<>>
    /\ returned = <<>>
    /\ printed = <<>>
    /\ result = Running

Start(c, entry) == StartIn(c, entry, InitialFiles)

Init == \E c \in Commands : Start(c, Entry(c))

\* get_env_var
get_env_var(varname) ==
    IF env[varname] THEN Ok(varname)
    ELSE context(Err("NotPresent", <<>>), <<"failed to find in environment", varname>>)

\* The function returns r to main: `?` on an Err, or the final Ok(()).
Finish(r) ==
    /\ pc' = "done"
    /\ result' = [done |-> TRUE, ok |-> r.ok, err |-> r.err]

\* The first half of an exec_cmd call: Command::output() starts the child and
\* blocks, or fails to start it and exec_cmd returns the error (with the
\* caller's context, if it adds one).
Spawn(site, label, cmd, ctx, wait) ==
    /\ invoked' = Append(invoked, [site |-> site, label |-> label, cmd |-> cmd])
    /\ UNCHANGED returned
    /\ \E launched \in BOOLEAN :
         IF launched
         THEN /\ inflight' = inflight \cup {site}
              /\ pc' = wait
              /\ UNCHANGED result
         ELSE /\ UNCHANGED inflight
              /\ Finish(IF ctx = <<>> THEN exec_cmd_launch_failure(label, cmd)
                        ELSE context(exec_cmd_launch_failure(label, cmd), ctx))

LastCmd == invoked[Len(invoked)].cmd

\* The second half of an exec_cmd call that returns while its child is
\* still running.
Reap_unwaited(site, child, r) ==
    /\ UNCHANGED inflight
    /\ returned' = Append(returned,
                     [site |-> site,
                      status |-> child.status,
                      stdout |-> output(LastCmd, child).stdout,
                      stdout_utf8 |-> output(LastCmd, child).stdout_utf8,
                      stderr_utf8 |-> output(LastCmd, child).stderr_utf8,
                      child_stderr_utf8 |-> child.stderr_utf8,
                      ok |-> r.ok,
                      err |-> r.err])
    /\ UNCHANGED invoked

\* The second half of an exec_cmd call: the child has terminated with `child`
\* and exec_cmd returned r.
Reap(site, child, r) ==
    /\ inflight' = inflight \ {site}
    /\ returned' = Append(returned,
                     [site |-> site,
                      status |-> child.status,
                      stdout |-> output(LastCmd, child).stdout,
                      stdout_utf8 |-> output(LastCmd, child).stdout_utf8,
                      stderr_utf8 |-> output(LastCmd, child).stderr_utf8,
                      child_stderr_utf8 |-> child.stderr_utf8,
                      ok |-> r.ok,
                      err |-> r.err])
    /\ UNCHANGED invoked

\* ---------------------------------------------------------------- commands
GIT_CMD == "git"

inherit_stdin_stdout(cmd) == [cmd EXCEPT !.stdin = "inherit", !.stdout = "inherit"]

inherit_stdin_stderr(cmd) == [cmd EXCEPT !.stdin = "inherit", !.stderr = "inherit"]

\* The editor's command without the path argument.
editor_exec_no_arg == inherit_stdin_stdout(Command("$EDITOR value", <<>>, NoPath))

\* open_editor_at_path: the command it builds.
editor_exec == inherit_stdin_stdout(Command("$EDITOR value", <<>>, filepath))

\* sync: the four commands it builds.
git_pull_exec ==
    Command(GIT_CMD, <<"pull", args.git_remote_name, args.git_upstream_branch>>, NoPath)

git_add_exec == Command(GIT_CMD, <<"add", "-A">>, NoPath)

git_commit_exec ==
    IF args.git_custom_commit_msg
    THEN inherit_stdin_stdout(Command(GIT_CMD, <<"commit">>, NoPath))
    ELSE Command(GIT_CMD, <<"commit", "-m", "format_rfc3339_seconds(now)">>, NoPath)

git_push_exec ==
    Command(GIT_CMD, <<"push", args.git_remote_name, args.git_upstream_branch>>, NoPath)

PullContext == <<"failed to pull upstream changes, please fix the issue and run jot sync">>
PushContext == <<"failed to push to upstream, please fix the issue and run jot sync">>

\* edit, list: the shell command that runs the finder or lister text, with
\* the stdio settings of the caller and of exec_custom_invocation_cmd.
custom_invocation_cmd(text) ==
    LET cmd == Command("$SHELL value", <<args.shell_cmd_flag, text>>, NoPath)
    IN  IF ~args.capture_std THEN inherit_stdin_stderr(inherit_stdin_stderr(cmd)) ELSE cmd

\* exec_custom_invocation_cmd that never asks the caller to return early.
exec_custom_invocation_cmd_no_early(cmd, child) ==
    LET r == exec_cmd("finder", cmd, child, args.capture_std, args.quiet_on_ctrl_c)
    IN  IF ~r.ok THEN r ELSE Ok([stdout |-> r.val.stdout, early |-> FALSE])

\* exec_custom_invocation_cmd, once the child has terminated.
exec_custom_invocation_cmd(cmd, child) ==
    LET r == exec_cmd("finder", cmd, child, args.capture_std, args.quiet_on_ctrl_c)
    IN  IF ~r.ok THEN r
        ELSE Ok([stdout |-> r.val.stdout,
                 early  |-> args.quiet_on_ctrl_c /\ r.val.exit_code = Some(CTRL_C_EXIT_CODE)])

\* ------------------------------------------------------------------- sync
\* sync, git pull: lines 213-219.
sync_pull_spawn ==
    /\ pc = "sync_pull"
    /\ Spawn("pull", "pulling", git_pull_exec, PullContext, "pull_wait")
    /\ UNCHANGED <<args, command, env, cwd, files, data, resolved, filepath, printed>>

sync_pull_return ==
    /\ pc = "pull_wait"
    /\ \E child \in Children({<<>>}) :
         LET r == context(exec_cmd("pulling", LastCmd, child, TRUE, args.quiet_on_ctrl_c),
                          PullContext)
         IN  /\ Reap("pull", child, r)
             /\ IF r.ok THEN pc' = "sync_stage" /\ UNCHANGED result ELSE Finish(r)
    /\ UNCHANGED <<args, command, env, cwd, files, data, resolved, filepath, printed>>

\* sync, git add: lines 222-224.
sync_stage_spawn ==
    /\ pc = "sync_stage"
    /\ Spawn("stage", "staging", git_add_exec, <<>>, "stage_wait")
    /\ UNCHANGED <<args, command, env, cwd, files, data, resolved, filepath, printed>>

sync_stage_return ==
    /\ pc = "stage_wait"
    /\ \E child \in Children({<<>>}) :
         LET r == exec_cmd("staging", LastCmd, child, TRUE, args.quiet_on_ctrl_c)
         IN  /\ Reap("stage", child, r)
             /\ IF r.ok THEN pc' = "sync_commit" /\ UNCHANGED result ELSE Finish(r)
    /\ UNCHANGED <<args, command, env, cwd, files, data, resolved, filepath, printed>>

\* sync, git commit: lines 227-238.
sync_commit_spawn ==
    /\ pc = "sync_commit"
    /\ Spawn("commit", "committing", git_commit_exec, <<>>, "commit_wait")
    /\ UNCHANGED <<args, command, env, cwd, files, data, resolved, filepath, printed>>

sync_commit_return ==
    /\ pc = "commit_wait"
    /\ \E child \in Children({<<>>}) :
         LET r == exec_cmd("committing", LastCmd, child, TRUE, args.quiet_on_ctrl_c)
         IN  /\ Reap("commit", child, r)
             /\ IF r.ok THEN pc' = "sync_push" /\ UNCHANGED result ELSE Finish(r)
    /\ UNCHANGED <<args, command, env, cwd, files, data, resolved, filepath, printed>>

\* sync, git push: lines 241-248.
sync_push_spawn ==
    /\ pc = "sync_push"
    /\ Spawn("push", "pushing", git_push_exec, PushContext, "push_wait")
    /\ UNCHANGED <<args, command, env, cwd, files, data, resolved, filepath, printed>>

sync_push_return ==
    /\ pc = "push_wait"
    /\ \E child \in Children({<<>>}) :
         LET r == context(exec_cmd("pushing", LastCmd, child, TRUE, args.quiet_on_ctrl_c),
                          PushContext)
         IN  /\ Reap("push", child, r)
             /\ Finish(IF r.ok THEN Ok(<<>>) ELSE r)
    /\ UNCHANGED <<args, command, env, cwd, files, data, resolved, filepath, printed>>

\* ----------------------------------------------------- open_editor_at_path
\* open_editor_at_path up to the editor's start: lines 72-84.
open_editor_spawn ==
    /\ pc = "open_editor"
    /\ LET editor == get_env_var("EDITOR")
       IN  IF ~editor.ok
           THEN Finish(editor) /\ UNCHANGED <<inflight, invoked, returned>>
           ELSE Spawn("editor", "$EDITOR", editor_exec, <<>>, "editor_wait")
    /\ UNCHANGED <<args, command, env, cwd, files, data, resolved, filepath, printed>>

\* open_editor_at_path from the editor's end: lines 79-86; sync(args) starts
\* with the pull.
open_editor_return ==
    /\ pc = "editor_wait"
    /\ \E child \in Children({<<>>}) :
         LET r == exec_cmd("$EDITOR", LastCmd, child, TRUE, args.quiet_on_ctrl_c)
         IN  /\ Reap("editor", child, r)
             /\ IF r.ok THEN pc' = "sync_pull" /\ UNCHANGED result ELSE Finish(r)
    /\ UNCHANGED <<args, command, env, cwd, files, data, resolved, filepath, printed>>

\* --------------------------------------------------------------------- new
Parent(loc) == SubSeq(loc, 1, Len(loc) - 1)

\* Path::exists that finds nothing.
exists_never(p) == FALSE

\* Path::exists
exists(p) == Location(p, cwd).comps \in files

\* new with the file created before the resolver's answer is looked at.
new_created_first ==
    /\ pc = "new"
    /\ LET absolute_filepath == relative_path_to_absolute(args.base_dir, command.path)
           loc == Location(join(args.base_dir, command.path), cwd).comps
       IN  /\ resolved' = <<absolute_filepath>>
           /\ files' = files \cup {loc}
           /\ data' = data \ {loc}
           /\ filepath' = command.path
           /\ IF absolute_filepath.ok
              THEN pc' = "open_editor" /\ UNCHANGED result
              ELSE Finish(absolute_filepath)
    /\ UNCHANGED <<args, command, env, cwd, inflight, invoked, returned, printed>>

\* new up to the call of open_editor_at_path: lines 112-121.  File::create
\* needs the parent to be a directory and may still be refused by the system;
\* the file it leaves is empty, whatever was there before.
new ==
    /\ pc = "new"
    /\ LET absolute_filepath == relative_path_to_absolute(args.base_dir, command.path)
       IN  /\ resolved' = <<absolute_filepath>>
           /\ IF ~absolute_filepath.ok
              THEN Finish(absolute_filepath) /\ UNCHANGED <<files, data, filepath>>
              ELSE IF ~exists(absolute_filepath.val)
                   THEN \E created \in BOOLEAN :
                          LET loc == Location(absolute_filepath.val, cwd).comps
                          IN  IF created /\ Parent(loc) \in files \ data
                              THEN /\ files' = files \cup {loc}
                                   /\ data' = data \ {loc}
                                   /\ filepath' = command.path
                                   /\ pc' = "open_editor"
                                   /\ UNCHANGED result
                              ELSE /\ Finish(context(Err("Io", <<>>),
                                               <<"failed to create a file at">>
                                                   \o display(command.path)))
                                   /\ UNCHANGED <<files, data, filepath>>
                   ELSE /\ filepath' = command.path
                        /\ pc' = "open_editor"
                        /\ UNCHANGED <<files, data, result>>
    /\ UNCHANGED <<args, command, env, cwd, inflight, invoked, returned, printed>>

\* -------------------------------------------------------------------- edit
\* edit up to the finder's start: lines 147-156.
edit_spawn ==
    /\ pc = "edit"
    /\ LET shell == get_env_var("SHELL")
       IN  IF ~shell.ok
           THEN Finish(shell) /\ UNCHANGED <<inflight, invoked, returned>>
           ELSE Spawn("finder", "finder", custom_invocation_cmd(args.finder), <<>>,
                      "finder_wait")
    /\ UNCHANGED <<args, command, env, cwd, files, data, resolved, filepath, printed>>

\* edit from the finder's end to the call of open_editor_at_path: lines
\* 156-164.
edit_return ==
    /\ pc = "finder_wait"
    /\ \E child \in Children(StdoutSamples) :
         LET r == exec_custom_invocation_cmd(LastCmd, child)
         IN  /\ Reap("finder", child, r)
             /\ IF ~r.ok
                THEN Finish(r) /\ UNCHANGED filepath
                ELSE IF r.val.early
                     THEN Finish(Ok(<<>>)) /\ UNCHANGED filepath
                     ELSE /\ filepath' = PathNew(r.val.stdout)
                          /\ pc' = "open_editor"
                          /\ UNCHANGED result
    /\ UNCHANGED <<args, command, env, cwd, files, data, resolved, printed>>

\* -------------------------------------------------------------------- list
\* std::env::set_current_dir: the directory must exist, and the system may
\* still refuse.
CanEnter(p) == Location(p, cwd).comps \in files

\* list up to the lister's start: lines 172-189.
list_spawn ==
    /\ pc = "list"
    /\ LET listing_path == IF command.some
                           THEN relative_path_to_absolute(args.base_dir, command.path)
                           ELSE Ok(args.base_dir)
       IN  /\ resolved' = <<listing_path>>
           /\ IF ~listing_path.ok
              THEN Finish(listing_path) /\ UNCHANGED <<cwd, inflight, invoked, returned>>
              ELSE \E entered \in BOOLEAN :
                     IF ~(entered /\ CanEnter(listing_path.val))
                     THEN /\ Finish(context(Err("Io", <<>>),
                                      <<"failed to change jot's working directory to">>
                                          \o display(listing_path.val)))
                          /\ UNCHANGED <<cwd, inflight, invoked, returned>>
                     ELSE /\ cwd' = Location(listing_path.val, cwd)
                          /\ LET shell == get_env_var("SHELL")
                             IN  IF ~shell.ok
                                 THEN Finish(shell) /\ UNCHANGED <<inflight, invoked, returned>>
                                 ELSE Spawn("lister", "finder",
                                            custom_invocation_cmd(args.lister), <<>>,
                                            "lister_wait")
    /\ UNCHANGED <<args, command, env, files, data, filepath, printed>>

\* list from the lister's end: lines 189-204.
list_return ==
    /\ pc = "lister_wait"
    /\ \E child \in Children(StdoutSamples) :
         LET r == exec_custom_invocation_cmd(LastCmd, child)
         IN  /\ Reap("lister", child, r)
             /\ IF ~r.ok
                THEN Finish(r) /\ UNCHANGED <<cwd, printed>>
                ELSE IF r.val.early
                     THEN Finish(Ok(<<>>)) /\ UNCHANGED <<cwd, printed>>
                     ELSE /\ printed' = Append(printed, r.val.stdout)
                          /\ \E entered \in BOOLEAN :
                               IF entered /\ CanEnter(args.base_dir)
                               THEN /\ cwd' = Location(args.base_dir, cwd)
                                    /\ Finish(Ok(<<>>))
                               ELSE /\ UNCHANGED cwd
                                    /\ Finish(context(Err("Io", <<>>),
                                         <<"failed to change jot's working directory to">>
                                             \o display(args.base_dir)))
    /\ UNCHANGED <<args, command, env, files, data, resolved, filepath>>

\* ------------------------------------------------- the edit of main.rs
\* main.rs holds an earlier edit of its own, which ends with the editor.
\* Its finder command: lines 82-91 (Args::capture_std is capture_stderr
\* there).
main_finder_cmd ==
    LET cmd == Command("$SHELL value", <<args.shell_cmd_flag, args.finder>>, NoPath)
    IN  [cmd EXCEPT !.stdin = IF args.capture_std THEN "piped" ELSE "inherit",
                    !.stderr = "inherit"]

\* main.rs, edit up to the finder's start: lines 81-98.
main_edit_spawn ==
    /\ pc = "main_edit"
    /\ LET shell == get_env_var("SHELL")
       IN  IF ~shell.ok
           THEN Finish(shell) /\ UNCHANGED <<inflight, invoked, returned>>
           ELSE Spawn("finder", "finder", main_finder_cmd, <<>>, "main_finder_wait")
    /\ UNCHANGED <<args, command, env, cwd, files, data, resolved, filepath, printed>>

\* main.rs, edit from the finder's end: lines 93-107.
main_edit_return ==
    /\ pc = "main_finder_wait"
    /\ \E child \in Children(StdoutSamples) :
         LET r == exec_cmd("finder", LastCmd, child, args.capture_std, args.quiet_on_ctrl_c)
         IN  /\ Reap("finder", child, r)
             /\ IF ~r.ok
                THEN Finish(r) /\ UNCHANGED filepath
                ELSE /\ filepath' = PathNew(r.val.stdout)
                     /\ IF args.quiet_on_ctrl_c /\ r.val.exit_code = Some(CTRL_C_EXIT_CODE)
                        THEN Finish(Ok(<<>>))
                        ELSE pc' = "main_editor" /\ UNCHANGED result
    /\ UNCHANGED <<args, command, env, cwd, files, data, resolved, printed>>

\* main.rs, edit up to the editor's start: lines 109-121.
main_editor_spawn ==
    /\ pc = "main_editor"
    /\ LET editor == get_env_var("EDITOR")
       IN  IF ~editor.ok
           THEN Finish(editor) /\ UNCHANGED <<inflight, invoked, returned>>
           ELSE Spawn("editor", "$EDITOR", editor_exec, <<>>, "main_editor_wait")
    /\ UNCHANGED <<args, command, env, cwd, files, data, resolved, filepath, printed>>

\* main.rs, edit from the editor's end: lines 116-123.
main_editor_return ==
    /\ pc = "main_editor_wait"
    /\ \E child \in Children({<<>>}) :
         LET r == exec_cmd("$EDITOR", LastCmd, child, TRUE, args.quiet_on_ctrl_c)
         IN  /\ Reap("editor", child, r)
             /\ Finish(IF r.ok THEN Ok(<<>>) ELSE r)
    /\ UNCHANGED <<args, command, env, cwd, files, data, resolved, filepath, printed>>

\* main.rs, main: lines 13-23.  The arguments are parsed and printed, and the
\* match calls the function of the command (Edit when there is none); it has
\* no arm for New and looks at nothing in the filesystem.
main ==
    /\ pc = "main"
    /\ LET c == IF command.name = "None" THEN "Edit" ELSE command.name
       IN  /\ c \in {"Edit", "List", "Synch"}
           /\ pc' = CASE c = "Edit" -> "main_edit"
                      [] c = "List" -> "main_list"
                      [] c = "Synch" -> "main_synch"
    /\ printed' = Append(printed, <<"Args">>)
    /\ UNCHANGED <<args, command, env, cwd, files, data, resolved, filepath,
                   inflight, invoked, returned, result>>

\* main.rs, list: lines 126-129.
main_list ==
    /\ pc = "main_list"
    /\ printed' = Append(printed, <<"List mode!">>)
    /\ Finish(Ok(<<>>))
    /\ UNCHANGED <<args, command, env, cwd, files, data, resolved, filepath,
                   inflight, invoked, returned>>

\* main.rs, synch: lines 131-134.
main_synch ==
    /\ pc = "main_synch"
    /\ printed' = Append(printed, <<"Sync mode!">>)
    /\ Finish(Ok(<<>>))
    /\ UNCHANGED <<args, command, env, cwd, files, data, resolved, filepath,
                   inflight, invoked, returned>>

\* ----------------------------------------------------------- specification
Next ==
    \/ new
    \/ edit_spawn
    \/ edit_return
    \/ list_spawn
    \/ list_return
    \/ open_editor_spawn
    \/ open_editor_return
    \/ sync_pull_spawn
    \/ sync_pull_return
    \/ sync_stage_spawn
    \/ sync_stage_return
    \/ sync_commit_spawn
    \/ sync_commit_return
    \/ sync_push_spawn
    \/ sync_push_return

Spec == Init /\ [][Next]_vars

\* The workflows of cmd.rs together with the edit of main.rs.
InitDrafts ==
    \/ Init
    \/ Start([name |-> "Edit", some |-> FALSE, path |-> NoPath], "main_edit")

NextDrafts ==
    \/ Next
    \/ main_edit_spawn
    \/ main_edit_return
    \/ main_editor_spawn
    \/ main_editor_return

SpecDrafts == InitDrafts /\ [][NextDrafts]_vars

\* A git working tree has a .git entry at its root.
GitDir(dir) == Append(dir.comps, ".git")

\* The filesystems jot may be started in: the base directory is a git
\* repository, is a plain directory, or does not exist.
Filesystems ==
    {InitialFiles \cup {GitDir(BaseDir)}, InitialFiles, {<<>>}}

\* What Cli::parse() returns in args.command: a subcommand or none.
ParsedCommands ==
    Commands \cup {[name |-> "None", some |-> FALSE, path |-> NoPath]}

\* The program of main.rs, from the start of main.
InitMain == \E c \in ParsedCommands, fs \in Filesystems : StartIn(c, "main", fs)

NextMain ==
    \/ main
    \/ main_list
    \/ main_synch
    \/ main_edit_spawn
    \/ main_edit_return
    \/ main_editor_spawn
    \/ main_editor_return

SpecMain == InitMain /\ [][NextMain]_vars

\* ------------------------------------------------------------- properties
GitPhases == <<"pull", "stage", "commit", "push">>
GitSites == {GitPhases[n] : n \in DOMAIN GitPhases}

Invoked(site) == \E i \in DOMAIN invoked : invoked[i].site = site

\* Some exec_cmd call was made after the (first) call for `site`.
InvokedAfter(site) ==
    \E i, j \in DOMAIN invoked : i < j /\ invoked[i].site = site

Returned(site) == \E k \in DOMAIN returned : returned[k].site = site

\* The child of `site` could not be started: the call was made, no child
\* runs and none has terminated.
NotLaunched(site) == Invoked(site) /\ site \notin inflight /\ ~Returned(site)

\* A child was started for `site`.
Spawned(site) == site \in inflight \/ Returned(site)

\* The Failure outcome of an invocation, read off the child's exit status.
FailureOutcome(ret) ==
    /\ ret.status # Some(0)
    /\ ~(args.quiet_on_ctrl_c /\ ret.status = Some(130))

ReturnedError == result.done /\ ~result.ok

GitInvoked == SelectSeq(invoked, LAMBDA e : e.site \in GitSites)

\* C1: sync runs Pull, Stage, Commit, Push in this order; a phase is invoked
\* only after the phase before it has returned without a Failure; after a
\* phase that yields a Failure or cannot be launched no further phase is
\* invoked and sync returns that error.
C1_SyncFailFast ==
    /\ IsPrefix([i \in DOMAIN GitInvoked |-> GitInvoked[i].site], GitPhases)
    /\ \A n \in 2..Len(GitPhases) :
         Invoked(GitPhases[n]) =>
            \E k \in DOMAIN returned :
               returned[k].site = GitPhases[n - 1] /\ ~FailureOutcome(returned[k])
    /\ \A k \in DOMAIN returned :
         returned[k].site \in GitSites /\ FailureOutcome(returned[k]) =>
            /\ ~InvokedAfter(returned[k].site)
            /\ ReturnedError
            /\ result.err[Len(result.err)].kind \in {"NonZeroExit", "Utf8Error"}
    /\ \A site \in GitSites :
         NotLaunched(site) => ~InvokedAfter(site) /\ ReturnedError

C1_Witness ==
    /\ pc = "done"
    /\ Invoked("stage")
    /\ ~Invoked("push")
    /\ \E k \in DOMAIN returned :
         returned[k].site = "commit" /\ returned[k].status = Some(1)

\* C2: after a sync phase has exited with code 130, no later phase of that
\* sync is started.
C2_InterruptStopsSync ==
    \A n \in DOMAIN GitPhases : \A k \in DOMAIN returned :
       returned[k].site = GitPhases[n] /\ returned[k].status = Some(130) =>
          \A m \in (n + 1)..Len(GitPhases) : ~Spawned(GitPhases[m])

\* The editor of new or edit has returned with exit code 0.
EditorSucceeded ==
    \E k \in DOMAIN returned :
       returned[k].site = "editor" /\ returned[k].status = Some(0) /\ returned[k].ok

\* C3: with sync-on-edit disabled new and edit never invoke sync; with it
\* enabled sync is invoked once the editor has returned successfully.
C3_SyncOnlyWhenEnabled ==
    command.name \in {"New", "Edit"} =>
       /\ ~args.edit_syncs => \A site \in GitSites : ~Spawned(site)
       /\ args.edit_syncs /\ EditorSucceeded => pc = "sync_pull" \/ Invoked("pull")

\* The entry of `returned` for the finder's child, if it has terminated.
FinderReturns == {k \in DOMAIN returned : returned[k].site = "finder"}

\* stderr is decoded only where the caller asks exec_cmd to capture it.
Captured(site) == IF site \in {"finder", "lister"} THEN args.capture_std ELSE TRUE

\* The bytes exec_cmd decodes were valid UTF-8.
Decoded(ret) == ret.stdout_utf8 /\ (Captured(ret.site) => ret.stderr_utf8)

\* Nothing was done with the finder's output: no editor, no sync, no print.
FinderOutputUnused ==
    /\ ~Invoked("editor")
    /\ \A site \in GitSites : ~Invoked(site)
    /\ printed = <<>>

ShellMissingInList ==
    /\ result.done /\ ~result.ok
    /\ result.err[1].detail = <<"failed to find in environment", "SHELL">>

\* C5: whenever list returns after it changed the working directory (the
\* lister succeeded, failed, was interrupted quietly, or $SHELL is missing),
\* the working directory is the base directory again.
C5_ListRestoresCwd ==
    /\ command.name = "List"
    /\ pc = "done"
    /\ Invoked("lister") \/ ShellMissingInList
    => cwd = args.base_dir

\* p is the base directory or lies below it, once ".." is followed.
BelowBase(p) ==
    IsPrefix(Location(args.base_dir, cwd).comps, Location(p, args.base_dir).comps)

\* new or list has resolved the path given on the command line.
ResolvedCandidate ==
    command.name \in {"New", "List"} /\ command.some /\ resolved # <<>>

\* C6: new and list reject with a containment error every absolute path
\* that is neither the base directory nor below it, and accept unchanged
\* every absolute path that is.
C6_AbsoluteContainment ==
    ResolvedCandidate /\ command.path.abs =>
       IF BelowBase(command.path)
       THEN resolved[1] = Ok(command.path)
       ELSE ~resolved[1].ok /\ resolved[1].err[1].kind = "PathOutsideBaseDirectory"

\* C7: every path the resolver returns is absolute and is the base directory
\* or below it, whatever the candidate.
C7_ResolvedBelowBase ==
    resolved # <<>> /\ resolved[1].ok =>
       resolved[1].val.abs /\ BelowBase(resolved[1].val)

ExitText(status) ==
    CASE status = Some(0) -> "0"
      [] status = Some(1) -> "1"
      [] status = Some(130) -> "130"
      [] status = None -> "N/A"

\* exec_cmd's result for a terminated child is the one its exit status
\* calls for.
Classified(ret) ==
    IF ret.status = Some(0) \/ (ret.status = Some(130) /\ args.quiet_on_ctrl_c)
    THEN ret.ok
    ELSE /\ ~ret.ok
         /\ \E i \in DOMAIN ret.err :
              /\ ret.err[i].kind = "NonZeroExit"
              /\ ret.err[i].detail[2] = ExitText(ret.status)

C10_EditorFailureIsHard ==
    \A k \in DOMAIN returned :
       returned[k].site = "editor" /\ returned[k].status # Some(0) =>
          /\ ~Spawned("pull")
          /\ result.done => ~result.ok

\* new has resolved its path and the resolver accepted it.
NewResolved == command.name = "New" /\ resolved # <<>> /\ resolved[1].ok

\* Where the path new resolved lies in the filesystem.
NewTarget == Location(resolved[1].val, cwd).comps

\* get_env_var("EDITOR") failed in open_editor_at_path.
EditorMissing ==
    /\ ReturnedError
    /\ result.err[1].detail = <<"failed to find in environment", "EDITOR">>

\* new went on to open_editor_at_path.
NewOpensEditor == pc = "open_editor" \/ Invoked("editor") \/ EditorMissing

\* new returned the error of File::create, and no editor was started.
NewCreateFailed ==
    /\ ReturnedError
    /\ result.err[1].detail[1] = "failed to create a file at"
    /\ ~Invoked("editor")
    /\ files = InitialFiles /\ data = InitialData

\* C11 as stated: when the target does not exist, new creates an empty file
\* at the resolved path before the editor is launched; when it exists, the
\* file is neither truncated nor recreated; in both cases new goes on to
\* launch the editor.
C11_NewCreatesThenEdits ==
    NewResolved =>
       /\ NewOpensEditor
       /\ IF NewTarget \in InitialFiles
          THEN files = InitialFiles /\ data = InitialData
          ELSE NewTarget \in files /\ NewTarget \notin data

\* C11 amended: when the target does not exist, new either creates an empty
\* file at the resolved path and goes on to launch the editor, or returns
\* the error of the failed creation without launching the editor; when the
\* target exists, it is neither truncated nor recreated and new goes on to
\* launch the editor.
C11_NewCreatesOrFails ==
    NewResolved =>
       IF NewTarget \in InitialFiles
       THEN NewOpensEditor /\ files = InitialFiles /\ data = InitialData
       ELSE \/ /\ NewOpensEditor
               /\ NewTarget \in files /\ NewTarget \notin data
               /\ files = InitialFiles \cup {NewTarget}
               /\ data = InitialData
            \/ NewCreateFailed

C11_Witness ==
    /\ NewResolved
    /\ NewTarget \notin InitialFiles
    /\ NewTarget \in files
    /\ Returned("editor")
    /\ InitialData \subseteq data

\* The base directory exists and is a git repository.
BaseDirIsGitRepo ==
    /\ args.base_dir.comps \in files
    /\ GitDir(args.base_dir) \in files

\* C12: when the base directory does not exist or is not a git repository,
\* no workflow runs to its end and no finder, lister, editor or git child is
\* spawned.
C12_BaseDirCheckedBeforeDispatch ==
    ~BaseDirIsGitRepo =>
       /\ inflight = {} /\ returned = <<>>
       /\ result.done => ~result.ok

\* The function main has called, by the subcommand it was given.
Dispatched ==
    CASE command.name \in {"Edit", "None"} -> {"main_edit", "main_finder_wait",
                                               "main_editor", "main_editor_wait"}
      [] command.name = "New" -> {"new", "open_editor", "editor_wait"}
      [] command.name = "List" -> {"main_list"}
      [] command.name = "Synch" -> {"main_synch"}

\* C13: for every command line main calls a workflow, and the one it runs is
\* the workflow the subcommand names, Edit when there is no subcommand.
C13_DispatchesNamedWorkflow ==
    /\ pc = "main" => ENABLED main
    /\ pc \notin {"main", "done"} => pc \in Dispatched

\* The git phase `site` failed: git could not be started, or it ended with
\* the Failure outcome.
PhaseFailed(site) ==
    \/ NotLaunched(site)
    \/ \E k \in DOMAIN returned :
          returned[k].site = site /\ FailureOutcome(returned[k])

\* The output of the git phase `site` did not decode as UTF-8.
PhaseUndecoded(site) ==
    \E k \in DOMAIN returned : returned[k].site = site /\ ~Decoded(returned[k])

\* Every text of the diagnostic the workflow returned.
DiagnosticTexts ==
    UNION {{result.err[i].detail[j] : j \in DOMAIN result.err[i].detail} :
              i \in DOMAIN result.err}

\* The diagnostic names the command `git pull <remote> <branch>`.
NamesPull ==
    {"pull", args.git_remote_name, args.git_upstream_branch} \subseteq DiagnosticTexts

Blocked ==
    pc \in {"finder_wait", "lister_wait", "editor_wait", "pull_wait", "stage_wait",
            "commit_wait", "push_wait", "main_finder_wait", "main_editor_wait"}

\* The children started so far: those that terminated and those running.
ChildrenStarted == Len(returned) + Cardinality(inflight)

\* At most one child runs at a time, the workflow is blocked in the call
\* that started it, children terminate in the order of the calls, and no
\* site is called twice.
OneCallAtATime ==
    /\ Cardinality(inflight) <= 1
    /\ inflight # {} =>
          Blocked /\ ~result.done /\ inflight = {invoked[Len(invoked)].site}
    /\ Len(returned) <= Len(invoked)
    /\ \A k \in DOMAIN returned : returned[k].site = invoked[k].site
    /\ \A i, j \in DOMAIN invoked : invoked[i].site = invoked[j].site => i = j

\* C15 as stated: at most one child is in flight at any time, every executor
\* call has spawned exactly one child and returns only after that child has
\* terminated, and the finder, lister, editor and each git phase are each
\* spawned at most once.
C15_OneChildPerCall ==
    /\ OneCallAtATime
    /\ ChildrenStarted = Len(invoked)

\* C15 amended: the same, except that a call whose program cannot be
\* started spawns no child: it is the last call of the workflow, which
\* returns its error.
C15_AtMostOneChildPerCall ==
    /\ OneCallAtATime
    /\ \/ ChildrenStarted = Len(invoked)
       \/ /\ ChildrenStarted = Len(invoked) - 1
          /\ NotLaunched(invoked[Len(invoked)].site)
          /\ pc = "done" /\ ReturnedError

C15_Witness ==
    /\ Len(returned) = 5
    /\ inflight = {"push"}
    /\ returned[1].site = "finder"

\* edit stopped with the error chain err; nothing ran after the finder.
EditStoppedWith(err) ==
    /\ pc = "done"
    /\ ReturnedError
    /\ result.err = err
    /\ ~Invoked("editor")
    /\ \A site \in GitSites : ~Invoked(site)

\* C16: when the finder of edit ends with a Failure, or cannot be started,
\* edit returns the executor's error as it is, and neither the editor nor
\* any git phase is invoked.
C16_FinderFailureStopsEdit ==
    /\ \A k \in FinderReturns :
          FailureOutcome(returned[k]) =>
             ~returned[k].ok /\ EditStoppedWith(returned[k].err)
    /\ NotLaunched("finder") =>
          EditStoppedWith(exec_cmd_launch_failure("finder", invoked[1].cmd).err)

C16_Witness ==
    /\ \E k \in FinderReturns :
         /\ returned[k].status = Some(1)
         /\ Decoded(returned[k])
    /\ result.err[1].kind = "NonZeroExit"
    /\ env.EDITOR /\ args.edit_syncs

\* The calls made for the editor.
EditorCalls == {i \in DOMAIN invoked : invoked[i].site = "editor"}

\* The editor was called once, after the finder's child had terminated, with
\* the path p as its only argument.
EditorCalledOnceWith(p) ==
    /\ Cardinality(EditorCalls) = 1
    /\ \A i \in EditorCalls :
          /\ i > 1 /\ invoked[1].site = "finder"
          /\ invoked[i].cmd.argv = <<>>
          /\ invoked[i].cmd.file = p

\* edit stands between the finder's return and the editor's start.
BeforeEditor == pc \in {"open_editor", "main_editor"}

\* The finder's child ended with the Success outcome.
FinderSucceeded(k) == returned[k].status = Some(0) /\ returned[k].ok

\* C17 as stated: once the finder has succeeded, edit invokes $EDITOR exactly
\* once, after the finder has terminated, with the finder's trimmed stdout
\* as its only argument, whether or not that path lies below the base
\* directory.
C17_EditorOpensFinderOutput ==
    \A k \in FinderReturns :
       FinderSucceeded(k) /\ ~BeforeEditor =>
          EditorCalledOnceWith(PathNew(trim(returned[k].stdout)))

\* C17 amended: the same when $EDITOR is set; when it is not, edit returns
\* the error naming the missing variable and invokes nothing.
C17_EditorOpensFinderOutputIfSet ==
    \A k \in FinderReturns :
       FinderSucceeded(k) /\ ~BeforeEditor =>
          IF env.EDITOR
          THEN EditorCalledOnceWith(PathNew(trim(returned[k].stdout)))
          ELSE EditorMissing /\ Len(invoked) = 1

C17_Witness ==
    /\ \E k \in FinderReturns :
         /\ FinderSucceeded(k)
         /\ returned[k].stdout = <<"/", "etc", "/", "x">>
    /\ Returned("editor")
    /\ \A i \in EditorCalls : ~BelowBase(invoked[i].cmd.file)

\* The resolver has rejected the path given to new or list.
Rejected == resolved # <<>> /\ ~resolved[1].ok

\* C18: the step of new or list in which the resolver rejects the path
\* creates no file, leaves the working directory as it was, has spawned no
\* child, and ends the operation with the resolver's error.
C18_RejectedPathHasNoEffect ==
    [][Rejected' =>
          /\ files' = files /\ data' = data
          /\ cwd' = cwd
          /\ invoked' = <<>> /\ inflight' = {} /\ returned' = <<>>
          /\ printed' = printed
          /\ pc' = "done" /\ result'.done /\ result'.err = resolved'[1].err]_vars

C18_Witness ==
    /\ Rejected
    /\ command.name = "New"
    /\ pc = "done"
    /\ cwd # args.base_dir
    /\ resolved[1].err[1].kind = "PathOutsideBaseDirectory"

\* C19: in new, the path the editor is started with names the file at the
\* resolved absolute path, the one checked for existence and created,
\* whatever the (non-empty) candidate and the working directory.
C19_EditorOpensResolvedPath ==
    NewResolved /\ command.path.comps # <<>> /\ Spawned("editor") =>
       \A i \in EditorCalls :
          Location(invoked[i].cmd.file, cwd) = Location(resolved[1].val, cwd)

\* exec_cmd returned the error of decoding `stream`.
DecodingError(ret, stream) ==
    ~ret.ok /\ ret.err[Len(ret.err)] = [kind |-> "Utf8Error", detail |-> <<stream>>]

\* The stderr text of exec_cmd's message for a non-zero exit, if it
\* returned one.
ReportedStderr(ret) ==
    {ret.err[i].detail[Len(ret.err[i].detail)] :
        i \in {j \in DOMAIN ret.err : ret.err[j].kind = "NonZeroExit"}}

CustomCalls ==
    {i \in DOMAIN invoked :
        invoked[i].site \in {"finder", "lister"} /\ Spawned(invoked[i].site)}

\* C21: the finder and the lister are started with stdout captured; with
\* capture-std on, stdin is not inherited and stderr is captured; with
\* capture-std off, stdin and stderr are both inherited.
C21_StdioFollowsCaptureStd ==
    \A i \in CustomCalls :
       /\ invoked[i].cmd.stdout = "piped"
       /\ IF args.capture_std
          THEN invoked[i].cmd.stdin # "inherit" /\ invoked[i].cmd.stderr = "piped"
          ELSE invoked[i].cmd.stdin = "inherit" /\ invoked[i].cmd.stderr = "inherit"

=============================================================================
